---- MODULE Spec2Model ----
(***************************************************************************)
(* jellyfin-renamer: the organisation pipeline (scan, group, plan,         *)
(* copy/move, transcode) of movie_organizer.py, tv_organizer.py and        *)
(* jellyfin-renamer.py as a state machine over a destination file system.  *)
(* Paths and file names are strings, built and split as the code does.     *)
(***************************************************************************)
EXTENDS Integers, Sequences, FiniteSets, TLC

(***************************************************************************)
(* Bounds of the model.                                                    *)
(***************************************************************************)
\* At most this many files of the universe are present under the source.
MaxFiles == 3

\* The number of runs on one source and destination.
MaxRuns == 3

\* The number of files of a source directory that is organised repeatedly.
MaxRerunFiles == 2

\* The number of files under the source directory of an interactive run.
MaxTuiFiles == 2

\* The number of files of a group handed to a planner.
MaxGroup == 3

\* The length of the longest episode list the guess reports.
MaxEpisodes == 3

\* The largest counter suffix present on the destination of a planner call.
MaxSuffix == 3

\* The longest list of "other" tags a guess holds.
MaxTags == 2

\* The number of movie files grouped at once.
MaxMovies == 2

\* The longest drawn file name, in characters.
MaxNameLen == 4

(***************************************************************************)
(* Python values.                                                          *)
(***************************************************************************)
\* None for an optional integer (year, season, part, episode).
NoneInt == -1

\* None for an optional string (resolution, extra_type): falsy like "".
NoneStr == ""

\* Truthiness of an optional integer: None and 0 are falsy.
TruthyInt(n) == n # NoneInt /\ n # 0

\* f"{n:02d}"
Pad2(n) == IF n < 10 THEN "0" \o ToString(n) ELSE ToString(n)

SeqToSet(s) == {s[i] : i \in DOMAIN s}

SetMax(S) == CHOOSE m \in S : \A n \in S : n <= m

(***************************************************************************)
(* String helpers: os.path.                                                *)
(***************************************************************************)
CharAt(s, i) == SubSeq(s, i, i)

\* Positions of character c in s.
Positions(s, c) == {i \in 1..Len(s) : CharAt(s, i) = c}

\* str.rfind: 0 when absent.
LastIndex(s, c) == IF Positions(s, c) = {} THEN 0 ELSE SetMax(Positions(s, c))

\* os.path.join(a, b) for relative b.
PathJoin(a, b) == a \o "/" \o b

\* os.path.splitext: the extension starts at the last dot of the last
\* component; leading dots of the component do not count.
SplitExtAt(p) ==
    LET sep == LastIndex(p, "/")
        dot == LastIndex(p, ".")
        lead == {i \in (sep + 1)..Len(p) :
                    \A j \in (sep + 1)..i : CharAt(p, j) = "."}
    IN IF dot > sep /\ dot \notin lead THEN dot ELSE Len(p) + 1

SplitExtBase(p) == SubSeq(p, 1, SplitExtAt(p) - 1)

SplitExtExt(p) == SubSeq(p, SplitExtAt(p), Len(p))

UpperLetters == "ABCDEFGHIJKLMNOPQRSTUVWXYZ"

LowerLetters == "abcdefghijklmnopqrstuvwxyz"

Digits == "0123456789"

IsDigit(c) == Positions(Digits, c) # {}

DigitVal(c) == (CHOOSE i \in Positions(Digits, c) : TRUE) - 1

\* str.lower() of one character.
LowerChar(c) ==
    IF Positions(UpperLetters, c) # {}
    THEN CharAt(LowerLetters, CHOOSE i \in Positions(UpperLetters, c) : TRUE)
    ELSE c

RECURSIVE Lower(_)
Lower(s) == IF s = "" THEN "" ELSE LowerChar(CharAt(s, 1)) \o Lower(SubSeq(s, 2, Len(s)))

(***************************************************************************)
(* The source tree and the filename-guessing capability (guessit), which   *)
(* is external: a fixed table over the file names of the universe.         *)
(***************************************************************************)
SourceDir == "S"

TargetDir == "T"

\* Every file that may lie under the source directory, in os.walk order.
Universe ==
    << [root |-> "S/a", file |-> "Avatar.2009.1080p.mkv"],
       [root |-> "S/a", file |-> "Avatar.2009.Trailer.mkv"],
       [root |-> "S/a", file |-> "Show.S01E01.720p.mkv"],
       [root |-> "S/a", file |-> "Show.S01.Trailer.mkv"],
       [root |-> "S/a", file |-> "notes.txt"],
       [root |-> "S/b", file |-> "Avatar.2009.1080p.BluRay.MKV"],
       [root |-> "S/b", file |-> "Avatar.2009.Trailer.mkv"],
       [root |-> "S/b", file |-> "Show.S01E01.720p.HDTV.mkv"] >>

IntEp(n) == [isList |-> FALSE, int |-> n, list |-> << >>]

StrOther(s) == [isList |-> FALSE, str |-> s, list |-> << >>]

\* guessit(filename): a dict; an absent key is a field not detected.
Guessit(filename) ==
    CASE filename \in {"Avatar.2009.1080p.mkv", "Avatar.2009.1080p.BluRay.MKV"} ->
           [title |-> "Avatar", year |-> 2009, screen_size |-> "1080p"]
      [] filename = "Avatar.2009.Trailer.mkv" ->
           [title |-> "Avatar", year |-> 2009, other |-> StrOther("Trailer")]
      [] filename \in {"Show.S01E01.720p.mkv", "Show.S01E01.720p.HDTV.mkv"} ->
           [title |-> "Show", season |-> 1, episode |-> IntEp(1),
            screen_size |-> "720p"]
      [] filename = "Show.S01.Trailer.mkv" ->
           [title |-> "Show", season |-> 1, other |-> StrOther("Trailer")]
      [] OTHER -> << >>

\* dict.get(key) with None for an absent integer field.
GetInt(info, key) == IF key \in DOMAIN info THEN info[key] ELSE NoneInt

\* dict.get(key) with None for an absent string field.
GetStr(info, key) == IF key \in DOMAIN info THEN info[key] ELSE NoneStr

\* "sub in s" for strings.
Contains(s, sub) ==
    \E i \in 1..(Len(s) - Len(sub) + 1) : SubSeq(s, i, i + Len(sub) - 1) = sub

\* The end of the longest run of digits of s starting at position i (i - 1
\* when s has no digit there): the greedy match of \d+ or \d*.
DigitsEnd(s, i) ==
    IF i > Len(s) \/ ~IsDigit(CharAt(s, i)) THEN i - 1
    ELSE SetMax({j \in i..Len(s) : \A k \in i..j : IsDigit(CharAt(s, k))})

\* int() of a string of digits.
RECURSIVE ParseInt(_)
ParseInt(s) ==
    IF s = "" THEN 0
    ELSE 10 * ParseInt(SubSeq(s, 1, Len(s) - 1)) + DigitVal(CharAt(s, Len(s)))

(***************************************************************************)
(* tv_parser.py: file name helpers.                                        *)
(***************************************************************************)
\* filename.split(".") has fewer than two parts.
NoDot(filename) == LastIndex(filename, ".") = 0

get_base_filename_without_ext(filename) ==
    IF NoDot(filename) THEN filename
    ELSE SubSeq(filename, 1, LastIndex(filename, ".") - 1)

\* Variant of get_real_extension that takes everything from the first dot.
ExtensionFromFirstDot(filename) ==
    IF NoDot(filename) THEN ""
    ELSE SubSeq(filename,
                CHOOSE i \in Positions(filename, ".") :
                    \A j \in Positions(filename, ".") : i <= j,
                Len(filename))

get_real_extension(filename) ==
    IF NoDot(filename) THEN ""
    ELSE "." \o SubSeq(filename, LastIndex(filename, ".") + 1, Len(filename))

get_filename_for_parsing(filename) ==
    IF NoDot(filename) THEN filename
    ELSE SubSeq(filename, 1, LastIndex(filename, ".") - 1) \o "."
         \o SubSeq(filename, LastIndex(filename, ".") + 1, Len(filename))

(***************************************************************************)
(* tv_parser.py and movie_parser.py: fields derived from the guess.        *)
(***************************************************************************)
\* info.get("episode"): None when the key is absent.
GetEpisode(info) ==
    IF "episode" \in DOMAIN info THEN info.episode
    ELSE [isList |-> FALSE, int |-> NoneInt, list |-> << >>]

\* The episode designator: None, an integer, or a string.
EpNone == [kind |-> "none", int |-> NoneInt, str |-> ""]

EpInt(n) == [kind |-> "int", int |-> n, str |-> ""]

EpStr(t) == [kind |-> "str", int |-> NoneInt, str |-> t]

normalize_episode_range(episode) ==
    IF episode.isList
    THEN IF Len(episode.list) = 0 THEN EpNone
         ELSE IF Len(episode.list) = 1 THEN EpInt(episode.list[1])
         ELSE IF Len(episode.list) = 2
              THEN EpStr(Pad2(episode.list[1]) \o "-E" \o Pad2(episode.list[2]))
         ELSE EpStr(Pad2(episode.list[1]) \o "-E"
                    \o Pad2(episode.list[Len(episode.list)]))
    ELSE IF ~TruthyInt(episode.int) THEN EpNone
    ELSE EpInt(episode.int)

\* The characters of the class [.\s-].
PartSeps == {".", " ", "\t", "-"}

\* Where the digits captured by r"[.\s-]<lit>[.\s-]?(\d+)" (optSep) or
\* r"[.\s-]<lit>(\d+)" start for a match beginning at i; 0 when no match.
PartDigitsAt(s, lit, optSep, i) ==
    LET j == i + 1 + Len(lit)
    IN IF ~(CharAt(s, i) \in PartSeps /\ j <= Len(s)
            /\ SubSeq(s, i + 1, j - 1) = lit) THEN 0
       ELSE IF optSep /\ CharAt(s, j) \in PartSeps /\ j + 1 <= Len(s)
               /\ IsDigit(CharAt(s, j + 1)) THEN j + 1
       ELSE IF IsDigit(CharAt(s, j)) THEN j
       ELSE 0

\* re.search of one part pattern: the captured integer, None when no match.
PartSearch(s, lit, optSep) ==
    LET M == {i \in 1..Len(s) : PartDigitsAt(s, lit, optSep, i) # 0}
    IN IF M = {} THEN NoneInt
       ELSE LET i == CHOOSE m \in M : \A n \in M : m <= n
                d == PartDigitsAt(s, lit, optSep, i)
            IN ParseInt(SubSeq(s, d, DigitsEnd(s, d)))

detect_multi_part(filename, guessit_info) ==
    IF "part" \in DOMAIN guessit_info THEN guessit_info.part
    ELSE LET filename_lower == Lower(filename)
         IN IF PartSearch(filename_lower, "part", TRUE) # NoneInt
            THEN PartSearch(filename_lower, "part", TRUE)
            ELSE IF PartSearch(filename_lower, "pt", TRUE) # NoneInt
            THEN PartSearch(filename_lower, "pt", TRUE)
            ELSE PartSearch(filename_lower, "p", FALSE)

\* The category of one tag, None when it holds no known token.
ExtraOfTag(other) ==
    IF Contains(other, "Trailer") THEN "trailers"
    ELSE IF Contains(other, "BehindTheScenes") \/ Contains(other, "Featurette")
    THEN "behind the scenes"
    ELSE IF Contains(other, "Interview") THEN "interviews"
    ELSE IF Contains(other, "Deleted") THEN "deleted scenes"
    ELSE NoneStr

detect_extra_type(guessit_info) ==
    IF "other" \in DOMAIN guessit_info
    THEN LET o == guessit_info.other
             others == IF o.isList THEN o.list ELSE << o.str >>
             hits == {i \in DOMAIN others : ExtraOfTag(others[i]) # NoneStr}
         IN IF hits = {} THEN NoneStr
            ELSE ExtraOfTag(others[CHOOSE i \in hits : \A j \in hits : i <= j])
    ELSE NoneStr

\* parse_tv_info after the guessit call returned info.
ParseTvInfoFrom(filename, info) ==
    [series |-> IF "title" \in DOMAIN info THEN info.title
                ELSE get_base_filename_without_ext(filename),
     season |-> GetInt(info, "season"),
     episodes |-> normalize_episode_range(GetEpisode(info)),
     year |-> GetInt(info, "year"),
     resolution |-> GetStr(info, "screen_size"),
     part |-> detect_multi_part(get_filename_for_parsing(filename), info),
     extra_type |-> detect_extra_type(info)]

ParseTvInfo(filename) ==
    ParseTvInfoFrom(filename, Guessit(get_filename_for_parsing(filename)))

\* "tok in info['other']": a substring of a string tag, a member of a list.
OtherHas(o, tok) ==
    IF o.isList THEN tok \in SeqToSet(o.list) ELSE Contains(o.str, tok)

\* The extra category parse_movie_info derives from the guess.
MovieExtraType(info) ==
    IF "other" \in DOMAIN info
    THEN IF OtherHas(info.other, "Trailer") THEN "trailers"
         ELSE IF OtherHas(info.other, "BehindTheScenes")
                 \/ OtherHas(info.other, "Featurette")
         THEN "behind the scenes"
         ELSE NoneStr
    ELSE NoneStr

ParseMovieInfo(filename) ==
    LET info == Guessit(filename)
    IN [title |-> IF "title" \in DOMAIN info THEN info.title
                  ELSE SplitExtBase(filename),
        year |-> GetInt(info, "year"),
        resolution |-> GetStr(info, "screen_size"),
        part |-> GetInt(info, "part"),
        extra_type |-> MovieExtraType(info)]

\* re.search(r"[sS]\d{1,2}[eE]\d{1,2}", filename)
MatchSxxEyy(f) ==
    \E i \in 1..Len(f) :
        /\ CharAt(f, i) \in {"s", "S"}
        /\ i + 3 <= Len(f)
        /\ IsDigit(CharAt(f, i + 1))
        /\ \/ CharAt(f, i + 2) \in {"e", "E"} /\ IsDigit(CharAt(f, i + 3))
           \/ /\ IsDigit(CharAt(f, i + 2))
              /\ i + 4 <= Len(f)
              /\ CharAt(f, i + 3) \in {"e", "E"}
              /\ IsDigit(CharAt(f, i + 4))

\* The end of the longest run of whitespace of s starting at i (\s*).
RECURSIVE SpacesEnd(_, _)
SpacesEnd(s, i) ==
    IF i <= Len(s) /\ CharAt(s, i) \in {" ", "\t"} THEN SpacesEnd(s, i + 1) ELSE i - 1

\* re.search(r"[<first>]<rest>\s*\d+", filename)
MatchWordNumber(f, first, rest) ==
    \E i \in 1..Len(f) :
        /\ CharAt(f, i) \in first
        /\ i + Len(rest) <= Len(f)
        /\ SubSeq(f, i + 1, i + Len(rest)) = rest
        /\ LET d == SpacesEnd(f, i + Len(rest) + 1) + 1
           IN d <= Len(f) /\ IsDigit(CharAt(f, d))

\* detect_content_type after the guessit call returned info.
DetectContentTypeFrom(filename, info) ==
    IF GetInt(info, "season") # NoneInt \/ "episode" \in DOMAIN info THEN "tv"
    ELSE IF \/ MatchSxxEyy(filename)
            \/ MatchWordNumber(filename, {"s", "S"}, "eason")
            \/ MatchWordNumber(filename, {"e", "E"}, "pisode")
    THEN "tv"
    ELSE "movie"

DetectContentType(filename) == DetectContentTypeFrom(filename, Guessit(filename))

VIDEO_EXTS == {".mp4", ".mkv", ".avi", ".mov", ".wmv", ".iso"}

(***************************************************************************)
(* The parsers are pure: their results for the file names of the universe  *)
(* are computed once.                                                      *)
(***************************************************************************)
FileNames == {Universe[i].file : i \in DOMAIN Universe}

TvInfoOf == [f \in FileNames |-> ParseTvInfo(f)]

MovieInfoOf == [f \in FileNames |-> ParseMovieInfo(f)]

ContentTypeOf == [f \in FileNames |-> DetectContentType(f)]

IsVideoOf == [f \in FileNames |-> Lower(SplitExtExt(f)) \in VIDEO_EXTS]

parse_tv_info(filename) == TvInfoOf[filename]

parse_movie_info(filename) == MovieInfoOf[filename]

detect_content_type(filename) == ContentTypeOf[filename]

(***************************************************************************)
(* Scanning and grouping.                                                  *)
(***************************************************************************)
\* The files of the universe that exist, as (root, file) in os.walk order,
\* filtered by extension.
scan_source_directory(exists) ==
    SelectSeq(Universe,
              LAMBDA u : /\ PathJoin(u.root, u.file) \in exists
                         /\ IsVideoOf[u.file])

\* The distinct values of a sequence in order of first appearance: the key
\* order of a dict filled in that order.
RECURSIVE FirstSeen(_)
FirstSeen(s) ==
    IF s = << >> THEN << >>
    ELSE LET init == FirstSeen(SubSeq(s, 1, Len(s) - 1))
             last == s[Len(s)]
         IN IF last \in SeqToSet(init) THEN init ELSE Append(init, last)

\* Concatenation of a sequence of sequences.
RECURSIVE Flatten(_)
Flatten(ss) == IF ss = << >> THEN << >> ELSE ss[1] \o Flatten(Tail(ss))

\* [Op(x) for x in s]
MapSeq(s, Op(_)) == [i \in DOMAIN s |-> Op(s[i])]

\* The entry of one scanned file in movie_groups: its key and file_info.
MovieEntryFrom(u, m) ==
    [key |-> m.title \o (IF TruthyInt(m.year) THEN ToString(m.year) ELSE ""),
     info |-> [path |-> PathJoin(u.root, u.file), file |-> u.file,
               resolution |-> m.resolution, part |-> m.part,
               extra_type |-> m.extra_type]]

MovieEntry(u) == MovieEntryFrom(u, parse_movie_info(u.file))

\* movie_groups[key] for each key in dict order, from the entries.
MovieGroups(entries, keys) ==
    [k \in DOMAIN keys |->
        [key |-> keys[k],
         files |-> MapSeq(SelectSeq(entries, LAMBDA e : e.key = keys[k]),
                          LAMBDA e : e.info)]]

MovieGroupsOf(entries) ==
    MovieGroups(entries, FirstSeen(MapSeq(entries, LAMBDA e : e.key)))

\* movie_groups as the sequence of its items: [key, files].
group_files_by_movie(all_files) == MovieGroupsOf(MapSeq(all_files, MovieEntry))

\* The entry of one scanned file in series_groups: its series key, its
\* season (1 when none was detected) and its file_info.
TvEntryFrom(u, t, season) ==
    [key |-> t.series \o (IF TruthyInt(t.year)
                           THEN " (" \o ToString(t.year) \o ")" ELSE ""),
     season |-> season,
     info |-> [path |-> PathJoin(u.root, u.file), file |-> u.file,
               series |-> t.series, season |-> season,
               episodes |-> t.episodes, year |-> t.year,
               resolution |-> t.resolution, part |-> t.part,
               extra_type |-> t.extra_type]]

\* Variant of DefaultSeason that tests the season's truth value.
DefaultSeasonIfFalsy(season) == IF TruthyInt(season) THEN season ELSE 1

DefaultSeason(season) == IF season = NoneInt THEN 1 ELSE season

TvEntry(u) ==
    TvEntryFrom(u, parse_tv_info(u.file), DefaultSeason(parse_tv_info(u.file).season))

\* The (series_key, season) pairs in loop order: series in dict order and
\* the seasons of a series in dict order.
SeasonKeys(entries, keys) ==
    Flatten([k \in DOMAIN keys |->
        MapSeq(FirstSeen(MapSeq(SelectSeq(entries, LAMBDA e : e.key = keys[k]),
                                LAMBDA e : e.season)),
               LAMBDA n : [series_key |-> keys[k], season_num |-> n])])

\* series_groups[series_key][season] for each pair in loop order.
SeasonGroups(entries, pairs) ==
    [k \in DOMAIN pairs |->
        [series_key |-> pairs[k].series_key,
         season_num |-> pairs[k].season_num,
         files |-> MapSeq(SelectSeq(entries,
                              LAMBDA e : /\ e.key = pairs[k].series_key
                                         /\ e.season = pairs[k].season_num),
                          LAMBDA e : e.info)]]

SeasonGroupsOf(entries) ==
    SeasonGroups(entries,
                 SeasonKeys(entries, FirstSeen(MapSeq(entries, LAMBDA e : e.key))))

\* series_groups as the sequence of its (series_key, season, files) lists.
group_files_by_series(all_files) == SeasonGroupsOf(MapSeq(all_files, TvEntry))

(***************************************************************************)
(* Planning: target paths.  `exists` is the set of paths for which         *)
(* os.path.exists holds while the plan is built: no file is written        *)
(* before the plan is complete.                                            *)
(***************************************************************************)
\* Variant of handle_duplicate_files that tries the counter 1 only.
HandleDuplicateOnce(target_path, exists) ==
    IF target_path \notin exists THEN target_path
    ELSE SplitExtBase(target_path) \o "_1" \o SplitExtExt(target_path)

\* The suffix search of both planners: the path itself when it is free,
\* else f"{base}_{counter}{ext}" for the first free counter from 1.
handle_duplicate_files(target_path, exists) ==
    IF target_path \notin exists THEN target_path
    ELSE LET base == SplitExtBase(target_path)
             ext == SplitExtExt(target_path)
             name(c) == base \o "_" \o ToString(c) \o ext
             counter == CHOOSE c \in 1..(Cardinality(exists) + 1) :
                           /\ name(c) \notin exists
                           /\ \A d \in 1..(c - 1) : name(d) \in exists
         IN name(counter)

\* re.match(r"^(.*?)(\d{4})?$", key): the year group is the last four
\* characters when all are digits.
KeyHasYear(key) ==
    Len(key) >= 4 /\ \A i \in (Len(key) - 3)..Len(key) : IsDigit(CharAt(key, i))

\* folder_name = f"{title}{year_str}"
MovieFolderName(key) ==
    IF KeyHasYear(key)
    THEN SubSeq(key, 1, Len(key) - 4) \o " (" \o SubSeq(key, Len(key) - 3, Len(key)) \o ")"
    ELSE key

IsMain(f) == f.extra_type = NoneStr

IsExtra(f) == f.extra_type # NoneStr

ResStr(f) == IF f.resolution # NoneStr THEN " - " \o f.resolution ELSE ""

MoviePartStr(f) == IF TruthyInt(f.part) THEN " - part" \o ToString(f.part) ELSE ""

\* Variant of VersionCount with one counter for all the main files.
VersionCountShared(main_files, i) == i

\* version_counter[version_key] after the i-th main file was counted.
VersionCount(main_files, i) ==
    Cardinality({j \in 1..i : ResStr(main_files[j]) \o MoviePartStr(main_files[j])
                               = ResStr(main_files[i]) \o MoviePartStr(main_files[i])})

\* Variant of MovieMainTarget that keeps the computed path when it exists.
MovieMainTargetKept(main_files, i, folder_name, movie_folder, exists) ==
    LET f == main_files[i]
        base == folder_name \o ResStr(f) \o MoviePartStr(f)
        base_name ==
            IF Len(main_files) > 1 /\ VersionCount(main_files, i) > 1
            THEN base \o " - version" \o ToString(VersionCount(main_files, i))
            ELSE base
    IN PathJoin(movie_folder, base_name \o SplitExtExt(f.file))

\* The target path of the i-th main file of a movie group.
MovieMainTarget(main_files, i, folder_name, movie_folder, exists) ==
    LET f == main_files[i]
        base == folder_name \o ResStr(f) \o MoviePartStr(f)
        base_name ==
            IF Len(main_files) > 1 /\ VersionCount(main_files, i) > 1
            THEN base \o " - version" \o ToString(VersionCount(main_files, i))
            ELSE base
    IN handle_duplicate_files(PathJoin(movie_folder, base_name \o SplitExtExt(f.file)),
                              exists)

\* The target path of an extra file of a movie folder or a season folder.
ExtraTarget(f, folder, exists) ==
    handle_duplicate_files(PathJoin(PathJoin(folder, f.extra_type), f.file), exists)

\* The plan of the movie organizer: (file_info, target_path) pairs.
prepare_file_operations(movie_groups, target_dir, exists) ==
    LET folder(g) == PathJoin(target_dir, MovieFolderName(g.key))
        mains(g) == SelectSeq(g.files, IsMain)
        extras(g) == SelectSeq(g.files, IsExtra)
    IN [main |->
          Flatten([k \in DOMAIN movie_groups |->
             [i \in DOMAIN mains(movie_groups[k]) |->
                [info |-> mains(movie_groups[k])[i],
                 target |-> MovieMainTarget(mains(movie_groups[k]), i,
                                            MovieFolderName(movie_groups[k].key),
                                            folder(movie_groups[k]), exists)]]]),
        extra |->
          Flatten([k \in DOMAIN movie_groups |->
             [i \in DOMAIN extras(movie_groups[k]) |->
                [info |-> extras(movie_groups[k])[i],
                 target |-> ExtraTarget(extras(movie_groups[k])[i],
                                        folder(movie_groups[k]), exists)]]])]

\* The folders the movie organizer creates: each group's and each extra's.
MovieFolders(movie_groups, target_dir) ==
    LET folder(g) == PathJoin(target_dir, MovieFolderName(g.key))
    IN UNION {{folder(movie_groups[k])}
              \cup {PathJoin(folder(movie_groups[k]), f.extra_type) :
                      f \in {x \in SeqToSet(movie_groups[k].files) : IsExtra(x)}} :
              k \in DOMAIN movie_groups}

\* series_key.split(" (")[0]
SeriesName(series_key) ==
    LET P == {i \in 1..(Len(series_key) - 1) : SubSeq(series_key, i, i + 1) = " ("}
    IN IF P = {} THEN series_key
       ELSE SubSeq(series_key, 1, (CHOOSE i \in P : \A j \in P : i <= j) - 1)

\* The designator is a string only as normalize_episode_range builds it
\* ("aa-Ebb"); an integer is formatted {:02d}; a falsy one gives E01.
generate_episode_filename(file_info, series_key, season_num) ==
    LET e == file_info.episodes
        episode_str ==
            IF e.kind = "str" /\ e.str # "" THEN "E" \o e.str
            ELSE IF e.kind = "int" /\ e.int # 0 THEN "E" \o Pad2(e.int)
            ELSE "E01"
        part_str ==
            IF TruthyInt(file_info.part) THEN " Part " \o ToString(file_info.part)
            ELSE ""
    IN SeriesName(series_key) \o " S" \o Pad2(season_num) \o episode_str
       \o part_str \o ResStr(file_info) \o get_real_extension(file_info.file)

SeasonFolder(target_dir, series_key, season_num) ==
    PathJoin(PathJoin(target_dir, series_key), "Season " \o Pad2(season_num))

\* The plan of the series organizer: (file_info, target_path) pairs.
prepare_tv_operations(series_groups, target_dir, exists) ==
    LET folder(g) == SeasonFolder(target_dir, g.series_key, g.season_num)
        mains(g) == SelectSeq(g.files, IsMain)
        extras(g) == SelectSeq(g.files, IsExtra)
    IN [main |->
          Flatten([k \in DOMAIN series_groups |->
             [i \in DOMAIN mains(series_groups[k]) |->
                [info |-> mains(series_groups[k])[i],
                 target |-> handle_duplicate_files(
                     PathJoin(folder(series_groups[k]),
                              generate_episode_filename(mains(series_groups[k])[i],
                                  series_groups[k].series_key,
                                  series_groups[k].season_num)),
                     exists)]]]),
        extra |->
          Flatten([k \in DOMAIN series_groups |->
             [i \in DOMAIN extras(series_groups[k]) |->
                [info |-> extras(series_groups[k])[i],
                 target |-> ExtraTarget(extras(series_groups[k])[i],
                                        folder(series_groups[k]), exists)]]])]

\* The folders the series organizer creates.
SeriesFolders(series_groups, target_dir) ==
    LET folder(g) == SeasonFolder(target_dir, g.series_key, g.season_num)
    IN UNION {{PathJoin(target_dir, series_groups[k].series_key),
               folder(series_groups[k])}
              \cup {PathJoin(folder(series_groups[k]), f.extra_type) :
                      f \in {x \in SeqToSet(series_groups[k].files) : IsExtra(x)}} :
              k \in DOMAIN series_groups}

(***************************************************************************)
(* The run.                                                                *)
(***************************************************************************)
VARIABLES
    content_type,    \* --content-type: "movies", "tv" or "auto"
    downmix_audio,   \* --downmix-audio
    fs,              \* the files that exist: path -> content
    dirs,            \* the directories that exist
    pc,              \* where the main flow is
    all_files,       \* the scan of the source directory when the run starts
    todo,            \* the organizer calls still to make, the current one first
    all_main_files,  \* the current organizer's plan of main files
    all_extra_files, \* the current organizer's plan of extra files
    idx,             \* the next entry of the copy loops
    ffmpeg_tasks,    \* the current organizer's (target_path, temp_path) list
    task,            \* the state of each process_single_file task
    semaphore,       \* the value of the current organizer's semaphore
    plans,           \* history: every planned entry of the run
    ops,             \* history: every copy or move of the run
    invoked,         \* history: the input paths handed to the tool
    returncode,      \* history: the exit code of each task's tool
    error,           \* the exception that ended the run: [type, at]
    run,             \* the number of the run on this source and destination
    previous,        \* history: the plans of the earlier runs
    fn_call,         \* a function application: [fn, arg, done, out]
    tui,             \* --tui: the run is started from the progress screen
    selected_files,  \* config["selected_files"]: the paths picked on the screen
    is_completed,    \* ProgressScreen.is_completed
    is_cancelled     \* ProgressScreen.is_cancelled

vars == <<content_type, downmix_audio, fs, dirs, pc, all_files, todo, all_main_files,
          all_extra_files, idx, ffmpeg_tasks, task, semaphore, plans, ops,
          invoked, returncode, error, run, previous, fn_call, tui,
          selected_files, is_completed, is_cancelled>>

\* asyncio.Semaphore(2)
SemaphoreSlots == 2

\* No exception ended the run.
NoError == [type |-> "", at |-> ""]

\* No function application is under way.
NoCall == [fn |-> "", done |-> TRUE]

\* The content of a source file: its own bytes, named after its path.
ContentOf(path) == "bytes of " \o path

\* What the tool writes for an input with content c.
Transcode(c) == "flac(" \o c \o ")"

\* What a failed invocation may leave at its output path.
Partial == "partial"

\* Files that an earlier run may have left on the destination.
Leftovers ==
    {"T/Avatar (2009)/Avatar (2009) - 1080p.mkv",
     "T/Show/Season 01/Show S01E01 - 720p.mkv",
     "T/Movies/Avatar (2009)/Avatar (2009) - 1080p.mkv",
     "T/Shows/Show/Season 01/Show S01E01 - 720p.mkv"}

LeftoverDirs ==
    {"T/Avatar (2009)", "T/Show", "T/Show/Season 01", "T/Movies",
     "T/Movies/Avatar (2009)", "T/Shows", "T/Shows/Show",
     "T/Shows/Show/Season 01"}

UniversePath(i) == PathJoin(Universe[i].root, Universe[i].file)

\* The state when the program starts on a source of at most n files.
Started(n) ==
    /\ content_type \in {"movies", "tv", "auto"}
    /\ downmix_audio \in BOOLEAN
    /\ \E present \in SUBSET (DOMAIN Universe), populated \in BOOLEAN :
          /\ Cardinality(present) <= n
          /\ fs = [p \in {UniversePath(i) : i \in present}
                         \cup (IF populated THEN Leftovers ELSE {}) |->
                     IF p \in Leftovers THEN "old bytes" ELSE ContentOf(p)]
          /\ dirs = {SourceDir, "S/a", "S/b", TargetDir}
                    \cup (IF populated THEN LeftoverDirs ELSE {})
    /\ pc = "main"
    /\ all_files = << >>
    /\ todo = << >>
    /\ all_main_files = << >>
    /\ all_extra_files = << >>
    /\ idx = 1
    /\ ffmpeg_tasks = << >>
    /\ task = << >>
    /\ returncode = << >>
    /\ semaphore = SemaphoreSlots
    /\ plans = << >>
    /\ ops = << >>
    /\ invoked = {}
    /\ error = NoError
    /\ run = 1
    /\ previous = << >>
    /\ fn_call = NoCall
    /\ is_completed = FALSE
    /\ is_cancelled = FALSE

\* The command line: positional source and target, no selection.
Init ==
    /\ Started(MaxFiles)
    /\ tui = FALSE
    /\ selected_files = {}

\* core/common.py scan_source_directory(source_dir, content_type): the files
\* with their detected type ("auto") or with the type given.
TypedScan(exists, mode) ==
    MapSeq(scan_source_directory(exists),
           LAMBDA u : [root |-> u.root, file |-> u.file,
                       type |-> IF mode = "auto" THEN detect_content_type(u.file)
                                ELSE mode])

HasType(files, type) == \E i \in DOMAIN files : files[i].type = type

\* The organizer calls of a run, in order: [org, target_dir].  In auto mode
\* an organizer is called when the scan holds a file of its type.
OrganizerCalls(mode, files) ==
    IF mode = "movies" THEN << [org |-> "movies", target_dir |-> TargetDir] >>
    ELSE IF mode = "tv" THEN << [org |-> "tv", target_dir |-> TargetDir] >>
    ELSE (IF HasType(files, "movie")
          THEN << [org |-> "movies", target_dir |-> PathJoin(TargetDir, "Movies")] >>
          ELSE << >>)
         \o
         (IF HasType(files, "tv")
          THEN << [org |-> "tv", target_dir |-> PathJoin(TargetDir, "Shows")] >>
          ELSE << >>)

\* The files of a typed scan that were picked on the screen.
Selected(files, selected) ==
    SelectSeq(files, LAMBDA f : PathJoin(f.root, f.file) \in selected)

\* The organizer calls of ProgressScreen.process_files: process_movies and
\* process_tv_shows call their organizer on the whole source directory with
\* the Movies or Shows folder as target; process_mixed_content calls an
\* organizer when a selected file has its type.
ProcessFilesCalls(mode, files, selected) ==
    IF mode = "movies"
    THEN << [org |-> "movies", target_dir |-> PathJoin(TargetDir, "Movies")] >>
    ELSE IF mode = "tv"
    THEN << [org |-> "tv", target_dir |-> PathJoin(TargetDir, "Shows")] >>
    ELSE OrganizerCalls("auto", Selected(files, selected))

\* The state after the dispatch on the content type.
Dispatched(files, calls) ==
    /\ all_files' = files
    /\ todo' = calls
    /\ pc' = IF calls = << >> THEN "done" ELSE "plan"
    /\ is_completed' = (tui /\ calls = << >>)

\* __main__ and organize_mixed_content up to the first organizer call.
Main ==
    /\ pc = "main"
    /\ Dispatched(TypedScan(DOMAIN fs, content_type),
                  IF tui
                  THEN ProcessFilesCalls(content_type,
                           TypedScan(DOMAIN fs, content_type), selected_files)
                  ELSE OrganizerCalls(content_type,
                           TypedScan(DOMAIN fs, content_type)))
    /\ UNCHANGED <<content_type, downmix_audio, fs, dirs, all_main_files,
                   all_extra_files, idx, ffmpeg_tasks, task, semaphore, plans,
                   ops, invoked, returncode, error, run, previous, fn_call, tui,
                   selected_files, is_cancelled>>

\* The folders and the plan of the movie organizer for its groups.
MoviePlan(movie_groups, target_dir, exists) ==
    [folders |-> {target_dir} \cup MovieFolders(movie_groups, target_dir),
     ops |-> prepare_file_operations(movie_groups, target_dir,
                 exists \cup MovieFolders(movie_groups, target_dir))]

\* The folders and the plan of the series organizer for its groups.
TvPlan(series_groups, target_dir, exists) ==
    [folders |-> {target_dir} \cup SeriesFolders(series_groups, target_dir),
     ops |-> prepare_tv_operations(series_groups, target_dir,
                 exists \cup SeriesFolders(series_groups, target_dir))]

\* What an organizer plans from the files it scans when it is called.
PlanOf(call, files, exists) ==
    IF call.org = "movies"
    THEN MoviePlan(group_files_by_movie(files), call.target_dir, exists)
    ELSE TvPlan(group_files_by_series(files), call.target_dir, exists)

PlanRecords(org, entries, extra) ==
    [i \in DOMAIN entries |->
        [org |-> org, path |-> entries[i].info.path,
         target |-> entries[i].target, extra |-> extra]]

\* The state after the plan was built.
Planned(org, plan) ==
    /\ dirs' = dirs \cup plan.folders
    /\ all_main_files' = plan.ops.main
    /\ all_extra_files' = plan.ops.extra
    /\ plans' = plans \o PlanRecords(org, plan.ops.main, FALSE)
                       \o PlanRecords(org, plan.ops.extra, TRUE)

\* organize_movies / organize_tv_shows up to the plan: scan, group, create
\* the folders, prepare the operations.
Plan ==
    /\ pc = "plan"
    /\ Planned(Head(todo).org,
               PlanOf(Head(todo), scan_source_directory(DOMAIN fs),
                      DOMAIN fs \cup dirs))
    /\ idx' = 1
    /\ ffmpeg_tasks' = << >>
    /\ task' = << >>
    /\ returncode' = << >>
    /\ pc' = "copy"
    /\ UNCHANGED <<all_files, content_type, downmix_audio, fs, todo, semaphore, ops, invoked, error, run, previous, fn_call, tui,
                   selected_files, is_completed, is_cancelled>>

\* shutil.copy2(src, dst): dst holds the bytes of src; src stays.
copy2(files, src, dst) ==
    [p \in DOMAIN files \cup {dst} |-> IF p = dst THEN files[src] ELSE files[p]]

\* A file written at path with the given content.
write(files, path, content) ==
    [p \in DOMAIN files \cup {path} |-> IF p = path THEN content ELSE files[p]]

\* os.remove(path)
remove(files, path) == [p \in DOMAIN files \ {path} |-> files[p]]

\* shutil.move(src, dst) / os.replace(src, dst): dst holds the bytes of src
\* and src is gone.
move(files, src, dst) == remove(copy2(files, src, dst), src)

\* f"{base}.temp{ext}"
TempPath(target_path) ==
    SplitExtBase(target_path) \o ".temp" \o SplitExtExt(target_path)

\* Variant of MainMoves that ignores downmix: the series organizer always
\* moves.
MainAlwaysMoves(org, downmix) == org = "tv"

\* Whether the main-file loop moves: only the series organizer without
\* downmix.
MainMoves(org, downmix) == org = "tv" /\ ~downmix

\* Whether the extra-file loop moves: the series organizer always.
ExtraMoves(org) == org = "tv"

\* Variant of QueuesTask that queues every main file, downmix or not.
QueuesAlways(downmix) == TRUE

\* Whether copying a main file appends it to ffmpeg_tasks.
QueuesTask(downmix) == downmix

\* One iteration of the main-file loop.
CopyMainFile ==
    /\ pc = "copy"
    /\ idx <= Len(all_main_files)
    /\ LET e == all_main_files[idx]
           org == Head(todo).org
           moves == MainMoves(org, downmix_audio)
       IN /\ e.info.path \in DOMAIN fs
          /\ fs' = IF moves THEN move(fs, e.info.path, e.target)
                   ELSE copy2(fs, e.info.path, e.target)
          /\ ops' = Append(ops, [org |-> org, op |-> IF moves THEN "move" ELSE "copy",
                                 path |-> e.info.path, target |-> e.target,
                                 extra |-> FALSE])
          /\ ffmpeg_tasks' =
                IF QueuesTask(downmix_audio)
                THEN Append(ffmpeg_tasks,
                            [original_path |-> e.target,
                             temp_path |-> TempPath(e.target)])
                ELSE ffmpeg_tasks
    /\ idx' = idx + 1
    /\ UNCHANGED <<all_files, content_type, downmix_audio, dirs, pc, todo, all_main_files,
                   all_extra_files, task, semaphore, plans, invoked, returncode, error, run, previous, fn_call, tui,
                   selected_files, is_completed, is_cancelled>>

\* One iteration of the extra-file loop.
CopyExtraFile ==
    /\ pc = "copy"
    /\ idx > Len(all_main_files)
    /\ idx <= Len(all_main_files) + Len(all_extra_files)
    /\ LET e == all_extra_files[idx - Len(all_main_files)]
           org == Head(todo).org
           moves == ExtraMoves(org)
       IN /\ e.info.path \in DOMAIN fs
          /\ fs' = IF moves THEN move(fs, e.info.path, e.target)
                   ELSE copy2(fs, e.info.path, e.target)
          /\ ops' = Append(ops, [org |-> org, op |-> IF moves THEN "move" ELSE "copy",
                                 path |-> e.info.path, target |-> e.target,
                                 extra |-> TRUE])
    /\ idx' = idx + 1
    /\ UNCHANGED <<all_files, content_type, downmix_audio, dirs, pc, todo, all_main_files,
                   all_extra_files, ffmpeg_tasks, task, semaphore, plans, invoked, returncode, error, run, previous, fn_call, tui,
                   selected_files, is_completed, is_cancelled>>

\* The main flow after an organizer returned: the next call, or the end.
AfterReturn == IF Len(todo) > 1 THEN "plan" ELSE "done"

\* An organizer returns: the next call is made, or process_files marks the
\* screen completed.
Returns ==
    /\ pc' = AfterReturn
    /\ todo' = Tail(todo)
    /\ is_completed' = (tui /\ AfterReturn = "done")

\* The copy loops are over and there is nothing to transcode: the
\* organizer returns.
ReturnNoTasks ==
    /\ pc = "copy"
    /\ idx > Len(all_main_files) + Len(all_extra_files)
    /\ ~(downmix_audio /\ ffmpeg_tasks # << >>)
    /\ Returns
    /\ UNCHANGED <<all_files, content_type, downmix_audio, fs, dirs, all_main_files,
                   all_extra_files, idx, ffmpeg_tasks, task, semaphore, plans,
                   ops, invoked, returncode, error, run, previous, fn_call, tui,
                   selected_files, is_cancelled>>

\* The copy loops are over: the semaphore and one task per entry of
\* ffmpeg_tasks are created and gathered.
StartFfmpeg ==
    /\ pc = "copy"
    /\ idx > Len(all_main_files) + Len(all_extra_files)
    /\ downmix_audio /\ ffmpeg_tasks # << >>
    /\ semaphore' = SemaphoreSlots
    /\ task' = [i \in DOMAIN ffmpeg_tasks |-> "waiting"]
    /\ returncode' = [i \in DOMAIN ffmpeg_tasks |-> NoneInt]
    /\ pc' = "ffmpeg"
    /\ UNCHANGED <<all_files, content_type, downmix_audio, fs, dirs, todo, all_main_files,
                   all_extra_files, idx, ffmpeg_tasks, plans, ops, invoked, error, run, previous, fn_call, tui,
                   selected_files, is_completed, is_cancelled>>

\* Variant of CanAcquire without the count: only the order of the waiters.
CanAcquireAnyCount(i) == \A j \in 1..(i - 1) : task[j] # "waiting"

\* asyncio.Semaphore.acquire does not block: a slot is free and no earlier
\* task is still waiting (waiters are woken first in, first out).
CanAcquire(i) ==
    /\ semaphore > 0
    /\ \A j \in 1..(i - 1) : task[j] # "waiting"

\* A task enters `async with semaphore` and hands its invocation to a thread.
Acquire(i) ==
    /\ pc = "ffmpeg"
    /\ task[i] = "waiting"
    /\ CanAcquire(i)
    /\ semaphore' = semaphore - 1
    /\ task' = [task EXCEPT ![i] = "running"]
    /\ invoked' = invoked \cup {ffmpeg_tasks[i].original_path}
    /\ UNCHANGED <<all_files, content_type, downmix_audio, fs, dirs, pc, todo,
                   all_main_files, all_extra_files, idx, ffmpeg_tasks, plans, ops, returncode, error, run, previous, fn_call, tui,
                   selected_files, is_completed, is_cancelled>>

\* The file system after the tool ended: with exit code 0 the output path
\* holds the transcoded input; otherwise the output path may hold a partial
\* file (left) or be as it was.
ToolEffect(files, t, ok, left) ==
    IF ok THEN write(files, t.temp_path, Transcode(files[t.original_path]))
    ELSE IF left THEN write(files, t.temp_path, Partial)
    ELSE files

\* subprocess.run returns (exit code 0) or raises CalledProcessError.
ToolExit(i) ==
    /\ pc = "ffmpeg"
    /\ task[i] = "running"
    /\ \E ok \in BOOLEAN, left \in BOOLEAN :
          /\ ok => ~left
          /\ fs' = ToolEffect(fs, ffmpeg_tasks[i], ok, left)
          /\ task' = [task EXCEPT ![i] = IF ok THEN "exit_ok" ELSE "exit_error"]
          /\ returncode' = [returncode EXCEPT ![i] = IF ok THEN 0 ELSE 1]
    /\ UNCHANGED <<all_files, content_type, downmix_audio, dirs, pc, todo, all_main_files,
                   all_extra_files, idx, ffmpeg_tasks, semaphore, plans, ops,
                   invoked, error, run, previous, fn_call, tui,
                   selected_files, is_completed, is_cancelled>>

\* What process_single_file does with the tool's result: on success
\* os.replace(temp_path, original_path), which raises when temp_path is
\* missing; on failure os.remove(temp_path) when it exists.
AfterTool(files, t, success) ==
    IF success
    THEN IF t.temp_path \in DOMAIN files
         THEN [files |-> move(files, t.temp_path, t.original_path), raised |-> FALSE]
         ELSE [files |-> files, raised |-> TRUE]
    ELSE [files |-> IF t.temp_path \in DOMAIN files THEN remove(files, t.temp_path)
                    ELSE files,
          raised |-> FALSE]

\* The semaphore's value after a task left `async with semaphore`.
Release(value) == value + 1

\* The task resumes after the tool ended, handles the result and releases
\* its slot.
Resume(i) ==
    /\ pc = "ffmpeg"
    /\ task[i] \in {"exit_ok", "exit_error"}
    /\ LET r == AfterTool(fs, ffmpeg_tasks[i], task[i] = "exit_ok")
       IN /\ fs' = r.files
          /\ task' = [task EXCEPT ![i] = IF r.raised THEN "raised"
                                         ELSE IF task[i] = "exit_ok" THEN "replaced"
                                         ELSE "cleaned"]
    /\ semaphore' = Release(semaphore)
    /\ UNCHANGED <<all_files, content_type, downmix_audio, dirs, pc, todo, all_main_files,
                   all_extra_files, idx, ffmpeg_tasks, plans, ops, invoked, returncode, error, run, previous, fn_call, tui,
                   selected_files, is_completed, is_cancelled>>

\* Variant of AllTasksDone that is satisfied by the first finished task.
FirstTaskDone == \E i \in DOMAIN task : task[i] \in {"replaced", "cleaned"}

\* Every task handed to asyncio.gather has returned.
AllTasksDone == \A i \in DOMAIN task : task[i] \in {"replaced", "cleaned"}

\* asyncio.gather returns once every task is done: the organizer returns.
GatherDone ==
    /\ pc = "ffmpeg"
    /\ AllTasksDone
    /\ Returns
    /\ UNCHANGED <<all_files, content_type, downmix_audio, fs, dirs, all_main_files,
                   all_extra_files, idx, ffmpeg_tasks, task, semaphore, plans,
                   ops, invoked, returncode, error, run, previous, fn_call, tui,
                   selected_files, is_cancelled>>

\* Variant of CancelTask in which cancelling a task stops its tool.
CancelTaskStopsTool(state) ==
    IF state \in {"waiting", "running", "exit_ok", "exit_error"} THEN "cancelled"
    ELSE state

\* Task.cancel(): a task that waits for the semaphore or has not handled
\* its tool's exit ends there; a task whose tool runs waits for the tool
\* (the executor's shutdown) and ends without handling the result.
CancelTask(state) ==
    IF state = "running" THEN "orphan"
    ELSE IF state \in {"waiting", "exit_ok", "exit_error"} THEN "cancelled"
    ELSE state

\* asyncio.gather passes on the first exception: the organizer and the run
\* end with it, and asyncio.run cancels the tasks that are left.  A task
\* cancelled while its tool runs waits for the tool (the executor's
\* shutdown) and then ends without handling the result.
GatherRaise ==
    /\ pc = "ffmpeg"
    /\ \E i \in DOMAIN task : task[i] = "raised"
    /\ pc' = "failed"
    /\ error' = [type |-> "FileNotFoundError", at |-> ffmpeg_tasks[CHOOSE i \in DOMAIN task : task[i] = "raised"].temp_path]
    /\ task' = [i \in DOMAIN task |-> CancelTask(task[i])]
    /\ UNCHANGED <<all_files, content_type, downmix_audio, fs, dirs, todo, all_main_files,
                   all_extra_files, idx, ffmpeg_tasks, semaphore, plans, ops,
                   invoked, returncode, run, previous, fn_call, tui,
                   selected_files, is_completed, is_cancelled>>

\* The tool of a cancelled task ends; nothing handles its result.
OrphanExit(i) ==
    /\ pc \in {"failed", "cancelled"}
    /\ task[i] = "orphan"
    /\ \E ok \in BOOLEAN, left \in BOOLEAN :
          /\ ok => ~left
          /\ fs' = ToolEffect(fs, ffmpeg_tasks[i], ok, left)
          /\ returncode' = [returncode EXCEPT ![i] = IF ok THEN 0 ELSE 1]
    /\ task' = [task EXCEPT ![i] = "cancelled"]
    /\ UNCHANGED <<all_files, content_type, downmix_audio, dirs, pc, todo, all_main_files,
                   all_extra_files, idx, ffmpeg_tasks, semaphore, plans, ops,
                   invoked, error, run, previous, fn_call, tui,
                   selected_files, is_completed, is_cancelled>>

\* The groups an organizer builds from the files it scans.
GroupsOf(call, files) ==
    IF call.org = "movies" THEN group_files_by_movie(files)
    ELSE group_files_by_series(files)

\* The destination folder of a group: the movie's folder, the season's
\* folder.
GroupFolder(call, g) ==
    IF call.org = "movies" THEN PathJoin(call.target_dir, MovieFolderName(g.key))
    ELSE SeasonFolder(call.target_dir, g.series_key, g.season_num)

\* The folders the organizer has created when it reaches the folder of its
\* k-th group.
FoldersBefore(call, groups, k) ==
    {call.target_dir}
    \cup {GroupFolder(call, groups[j]) : j \in 1..(k - 1)}
    \cup (IF call.org = "movies" THEN {}
          ELSE {PathJoin(call.target_dir, groups[j].series_key) : j \in 1..k})

\* An exception raised before the copy loops ends the organizer and the run:
\* nothing catches it.  The call ends before its plan exists.
Raised(type, at) ==
    /\ pc' = "failed"
    /\ error' = [type |-> type, at |-> at]
    /\ all_main_files' = << >>
    /\ all_extra_files' = << >>
    /\ idx' = 1
    /\ ffmpeg_tasks' = << >>
    /\ task' = << >>
    /\ returncode' = << >>

\* guessit raises for a scanned file: in detect_content_type while the
\* mixed scan types the files, or in the parser while an organizer groups
\* them.
GuessitRaises ==
    /\ \/ pc = "main" /\ content_type = "auto"
       \/ pc = "plan"
    /\ LET files == scan_source_directory(DOMAIN fs)
       IN \E k \in DOMAIN files :
             Raised("GuessitException", PathJoin(files[k].root, files[k].file))
    /\ UNCHANGED <<all_files, content_type, downmix_audio, fs, dirs, todo,
                   semaphore, plans, ops, invoked, run, previous, fn_call, tui,
                   selected_files, is_completed, is_cancelled>>

\* os.makedirs raises for the folder of a group that does not exist yet.
MakedirsRaises ==
    /\ pc = "plan"
    /\ LET call == Head(todo)
           groups == GroupsOf(call, scan_source_directory(DOMAIN fs))
       IN \E k \in DOMAIN groups :
             /\ GroupFolder(call, groups[k]) \notin dirs
             /\ dirs' = dirs \cup FoldersBefore(call, groups, k)
             /\ Raised("OSError", GroupFolder(call, groups[k]))
    /\ UNCHANGED <<all_files, content_type, downmix_audio, fs, todo,
                   semaphore, plans, ops, invoked, run, previous, fn_call, tui,
                   selected_files, is_completed, is_cancelled>>

\* ProgressScreen.cancel_processing while process_files is suspended in
\* asyncio.gather: the worker is cancelled, and gather cancels its tasks.
cancel_processing ==
    /\ tui
    /\ pc = "ffmpeg"
    /\ is_cancelled' = TRUE
    /\ pc' = "cancelled"
    /\ task' = [i \in DOMAIN task |-> CancelTask(task[i])]
    /\ UNCHANGED <<all_files, content_type, downmix_audio, fs, dirs, todo,
                   all_main_files, all_extra_files, idx, ffmpeg_tasks, semaphore,
                   plans, ops, invoked, returncode, error, run, previous, fn_call,
                   tui, selected_files, is_completed>>

\* The tool invocations in flight.
InFlight == {i \in DOMAIN task : task[i] \in {"running", "orphan"}}

Next ==
    \/ Main
    \/ Plan
    \/ CopyMainFile
    \/ CopyExtraFile
    \/ ReturnNoTasks
    \/ StartFfmpeg
    \/ \E i \in DOMAIN task : Acquire(i)
    \/ \E i \in DOMAIN task : ToolExit(i)
    \/ \E i \in DOMAIN task : Resume(i)
    \/ GatherDone
    \/ GatherRaise
    \/ \E i \in DOMAIN task : OrphanExit(i)
    \/ GuessitRaises
    \/ MakedirsRaises

Spec == Init /\ [][Next]_vars

(***************************************************************************)
(* The run started from the progress screen.                               *)
(***************************************************************************)
\* The paths the file selector offers: the video files under the source.
Selectable ==
    {PathJoin(u.root, u.file) :
        u \in SeqToSet(scan_source_directory(DOMAIN fs))}

\* The screen starts process_files with a selection of the offered files.
InitTui ==
    /\ Started(MaxTuiFiles)
    /\ tui = TRUE
    /\ selected_files \in SUBSET Selectable

NextTui ==
    \/ Next
    \/ cancel_processing

SpecTui == InitTui /\ [][NextTui]_vars

(***************************************************************************)
(* Running the program again on the same source and destination.          *)
(***************************************************************************)
\* The program is started again with the same arguments after a run ended.
Rerun ==
    /\ pc = "done"
    /\ run < MaxRuns
    /\ run' = run + 1
    /\ previous' = Append(previous, plans)
    /\ pc' = "main"
    /\ all_files' = << >>
    /\ all_main_files' = << >>
    /\ all_extra_files' = << >>
    /\ idx' = 1
    /\ ffmpeg_tasks' = << >>
    /\ task' = << >>
    /\ returncode' = << >>
    /\ semaphore' = SemaphoreSlots
    /\ plans' = << >>
    /\ ops' = << >>
    /\ invoked' = {}
    /\ UNCHANGED <<content_type, downmix_audio, fs, dirs, todo, error, fn_call, tui,
                   selected_files, is_completed, is_cancelled>>

\* The movie pipeline starts on a destination that holds no file.
InitRerun ==
    /\ Init
    /\ content_type = "movies"
    /\ Cardinality(DOMAIN fs) <= MaxRerunFiles
    /\ \A p \in Leftovers : p \notin DOMAIN fs

\* The steps of the movie pipeline, whose tasks have a target and a temp
\* path each of their own, so that no os.replace raises.
NextRerun ==
    \/ Main
    \/ Plan
    \/ CopyMainFile
    \/ CopyExtraFile
    \/ ReturnNoTasks
    \/ StartFfmpeg
    \/ \E i \in DOMAIN task : Acquire(i)
    \/ \E i \in DOMAIN task : ToolExit(i)
    \/ \E i \in DOMAIN task : Resume(i)
    \/ GatherDone
    \/ Rerun

SpecRerun == InitRerun /\ [][NextRerun]_vars

(***************************************************************************)
(* The functions of the planners and parsers, applied to inputs drawn      *)
(* from bounded sets.                                                      *)
(***************************************************************************)
\* Every variable but fn_call.
run_vars == <<content_type, downmix_audio, fs, dirs, pc, all_files, todo,
              all_main_files, all_extra_files, idx, ffmpeg_tasks, task,
              semaphore, plans, ops, invoked, returncode, error, run, previous,
              tui, selected_files, is_completed, is_cancelled>>

\* No run is under way.
Idle ==
    /\ content_type = "movies"
    /\ downmix_audio = FALSE
    /\ fs = << >>
    /\ dirs = {}
    /\ pc = "fn"
    /\ all_files = << >>
    /\ todo = << >>
    /\ all_main_files = << >>
    /\ all_extra_files = << >>
    /\ idx = 1
    /\ ffmpeg_tasks = << >>
    /\ task = << >>
    /\ returncode = << >>
    /\ semaphore = SemaphoreSlots
    /\ plans = << >>
    /\ ops = << >>
    /\ invoked = {}
    /\ error = NoError
    /\ run = 1
    /\ previous = << >>
    /\ tui = FALSE
    /\ selected_files = {}
    /\ is_completed = FALSE
    /\ is_cancelled = FALSE

\* A pending application of fn to arg.
Pending(fn, arg) == [fn |-> fn, arg |-> arg, done |-> FALSE]

\* The application with its result.
Returned(c, out) == [fn |-> c.fn, arg |-> c.arg, done |-> TRUE, out |-> out]

\* base_k + ext of a path.
Suffixed(p, k) == SplitExtBase(p) \o "_" \o ToString(k) \o SplitExtExt(p)

\* Computed target paths: with an extension, without one, and without one
\* under a folder whose name holds a dot.
DupTargets == {"T/M (2009)/M (2009) - 1080p.mkv", "T/M (2009)/M", "T/M.2009/M"}

\* Calls of the collision resolution: the destination holds any of the
\* target and its suffixed names.
DupCalls ==
    {Pending("handle_duplicate_files", [target_path |-> p, exists |-> E]) :
        p \in DupTargets,
        E \in UNION {SUBSET ({q} \cup {Suffixed(q, k) : k \in 1..MaxSuffix}) :
                        q \in DupTargets}}

ApplyHandleDuplicateFiles ==
    /\ fn_call.fn = "handle_duplicate_files" /\ ~fn_call.done
    /\ fn_call' = Returned(fn_call,
                      handle_duplicate_files(fn_call.arg.target_path,
                                             fn_call.arg.exists))
    /\ UNCHANGED run_vars

\* The i-th file of a group as group_files_by_movie stores it.
MovieFile(i, ext, resolution, part, extra_type) ==
    [path |-> PathJoin(SourceDir, "f" \o ToString(i) \o ext),
     file |-> "f" \o ToString(i) \o ext,
     resolution |-> resolution, part |-> part, extra_type |-> extra_type]

\* The files a movie group may hold at position i.
MovieFilesAt(i) ==
    {MovieFile(i, IF i = 2 THEN ".mp4" ELSE ".mkv", r, p, x) :
        r \in {NoneStr, "1080p", "720p"}, p \in {NoneInt, 1},
        x \in {NoneStr, "trailers"}}

\* The groups of n files.
RECURSIVE MovieGroupsOfLen(_)
MovieGroupsOfLen(n) ==
    IF n = 0 THEN {<< >>}
    ELSE {Append(g, f) : g \in MovieGroupsOfLen(n - 1), f \in MovieFilesAt(n)}

\* The groups of at most MaxGroup files.
MovieGroupsDrawn == UNION {MovieGroupsOfLen(n) : n \in 1..MaxGroup}

\* Calls of the movie planner for one group on an empty destination.
MoviePlanCalls ==
    {Pending("prepare_file_operations",
             [movie_groups |-> << [key |-> "Avatar2009", files |-> g] >>,
              target_dir |-> TargetDir, exists |-> {}]) :
        g \in MovieGroupsDrawn}

ApplyPrepareFileOperations ==
    /\ fn_call.fn = "prepare_file_operations" /\ ~fn_call.done
    /\ fn_call' = Returned(fn_call,
                      prepare_file_operations(fn_call.arg.movie_groups,
                                              fn_call.arg.target_dir,
                                              fn_call.arg.exists))
    /\ UNCHANGED run_vars

\* Episode numbers the guess may report.
EpisodeNumbers == {0, 1, 2, 12}

\* info.get("episode"): None, an integer or a list of integers.
EpisodesDrawn ==
    {[isList |-> FALSE, int |-> n, list |-> << >>] :
        n \in EpisodeNumbers \cup {NoneInt}}
    \cup {[isList |-> TRUE, int |-> NoneInt, list |-> l] :
            l \in UNION {[1..n -> EpisodeNumbers] : n \in 1..MaxEpisodes}}

ApplyNormalizeEpisodeRange ==
    /\ fn_call.fn = "normalize_episode_range" /\ ~fn_call.done
    /\ fn_call' = Returned(fn_call, normalize_episode_range(fn_call.arg))
    /\ UNCHANGED run_vars

\* File names handed to the series parser.
SeriesFileNames == {"Breaking.Bad.S01E01-E02.720p.BluRay.x264.mkv", "Pilot.Pt.2.avi"}

\* Guesses for a series file: each field absent or present.
TvGuessDrawn ==
    {t @@ y @@ n @@ e @@ r @@ p @@ o :
        t \in {<< >>, "title" :> "Breaking Bad"},
        y \in {<< >>, "year" :> 2008},
        n \in {<< >>} \cup {"season" :> k : k \in 0..2},
        e \in {<< >>} \cup {"episode" :> IntEp(k) : k \in {0, 1, 12}}
               \cup {"episode" :> [isList |-> TRUE, int |-> NoneInt, list |-> l] :
                        l \in {<<0>>, <<1, 2>>, <<1, 2, 3>>}},
        r \in {<< >>, "screen_size" :> "720p"},
        p \in {<< >>, "part" :> 2},
        o \in {<< >>, "other" :> StrOther("Trailer")}}

\* What the series organizer plans for one scanned file whose parse is t.
SeriesPlanOf(u, t) ==
    prepare_tv_operations(
        SeasonGroupsOf(<< TvEntryFrom(u, t, DefaultSeason(t.season)) >>),
        TargetDir, {})

ApplySeriesPlan ==
    /\ fn_call.fn = "prepare_tv_operations" /\ ~fn_call.done
    /\ fn_call' = Returned(fn_call,
                      SeriesPlanOf([root |-> SourceDir, file |-> fn_call.arg.file],
                                   ParseTvInfoFrom(fn_call.arg.file, fn_call.arg.info)))
    /\ UNCHANGED run_vars

\* Tags a guess may report under "other".
Tags == {"Trailer", "BehindTheScenes", "Featurette", "Interview",
         "Deleted Scenes", "Proper"}

RECURSIVE TagListsOfLen(_)
TagListsOfLen(n) ==
    IF n = 0 THEN {<< >>}
    ELSE {Append(l, t) : l \in TagListsOfLen(n - 1), t \in Tags}

\* Guesses as far as the extra category reads them: no "other" key, one
\* tag, or a list of tags.
OtherGuessDrawn ==
    {<< >>} \cup {"other" :> StrOther(t) : t \in Tags}
    \cup {"other" :> [isList |-> TRUE, str |-> "", list |-> l] :
            l \in UNION {TagListsOfLen(n) : n \in 1..MaxTags}}

\* Both parsers classify the same guess.
ApplyExtraType ==
    /\ fn_call.fn = "extra_type" /\ ~fn_call.done
    /\ fn_call' = Returned(fn_call,
                      [tv |-> detect_extra_type(fn_call.arg),
                       movie |-> MovieExtraType(fn_call.arg)])
    /\ UNCHANGED run_vars

\* File names handed to detect_content_type.
TypedFileNames ==
    {"Random.File.2020.1080p.mkv", "Show.s1e2.mkv", "Show.S123E1.mkv",
     "Show Season 2.mkv", "Show.season2.mkv", "Show SEASON 2.mkv",
     "Show Episode  3.mkv", "Show EPISODE 3.mkv", "Show.Season.mkv"}

\* Guesses as far as detect_content_type reads them.
TypeGuessDrawn ==
    {n @@ e : n \in {<< >>, "season" :> 0, "season" :> 1},
              e \in {<< >>, "episode" :> IntEp(0), "episode" :> IntEp(1)}}

ApplyDetectContentType ==
    /\ fn_call.fn = "detect_content_type" /\ ~fn_call.done
    /\ fn_call' = Returned(fn_call,
                      DetectContentTypeFrom(fn_call.arg.file, fn_call.arg.info))
    /\ UNCHANGED run_vars

\* The characters file names are drawn from.
NameChars == {"a", ".", "v"}

\* The file names of up to n characters.
RECURSIVE NamesOfLen(_)
NamesOfLen(n) ==
    IF n = 0 THEN {""}
    ELSE {s \o c : s \in NamesOfLen(n - 1), c \in NameChars}

\* File names handed to the extension helpers: every short name and the
\* names of the tests.
SplitNamesDrawn ==
    UNION {NamesOfLen(n) : n \in 0..MaxNameLen}
    \cup {"Show.S01E01.episode.name.with.dots.mov.mkv", "NoExtensionMovie"}

ApplySplitFilename ==
    /\ fn_call.fn = "split_filename" /\ ~fn_call.done
    /\ fn_call' = Returned(fn_call,
                      [base |-> get_base_filename_without_ext(fn_call.arg),
                       ext |-> get_real_extension(fn_call.arg)])
    /\ UNCHANGED run_vars

\* Titles and years a movie guess may report; a file without a detected
\* title gets its name without the extension as title.
MovieTitles == {"Avatar", "Avatar2009", "Blade Runner 2049", "1917"}

MovieYears == {NoneInt, 2009, 2017}

\* What parse_movie_info returns for the i-th file of a source directory
\* whose guess holds the title t and the year y.
MovieGuess(t, y) ==
    [title |-> t, year |-> y, resolution |-> NoneStr, part |-> NoneInt,
     extra_type |-> NoneStr]

RECURSIVE MovieGuessesOfLen(_)
MovieGuessesOfLen(n) ==
    IF n = 0 THEN {<< >>}
    ELSE {Append(g, MovieGuess(t, y)) :
            g \in MovieGuessesOfLen(n - 1), t \in MovieTitles, y \in MovieYears}

\* The scanned file f<i>.mkv.
ScannedMovie(i) == [root |-> SourceDir, file |-> "f" \o ToString(i) \o ".mkv"]

\* The groups of the files f1.mkv, f2.mkv, ... with the given parses.
MovieGroupsFrom(guesses) ==
    MovieGroupsOf([i \in DOMAIN guesses |-> MovieEntryFrom(ScannedMovie(i), guesses[i])])

\* group_files_by_movie, then prepare_file_operations on an empty
\* destination.
ApplyGroupFilesByMovie ==
    /\ fn_call.fn = "group_files_by_movie" /\ ~fn_call.done
    /\ fn_call' = Returned(fn_call,
                      [movie_groups |-> MovieGroupsFrom(fn_call.arg),
                       plan |-> prepare_file_operations(
                                    MovieGroupsFrom(fn_call.arg), TargetDir, {})])
    /\ UNCHANGED run_vars

FnCalls ==
    DupCalls \cup MoviePlanCalls
    \cup {Pending("group_files_by_movie", g) :
            g \in UNION {MovieGuessesOfLen(n) : n \in 1..MaxMovies}}
    \cup {Pending("split_filename", f) : f \in SplitNamesDrawn}
    \cup {Pending("detect_content_type", [file |-> f, info |-> g]) :
            f \in TypedFileNames, g \in TypeGuessDrawn}
    \cup {Pending("extra_type", g) : g \in OtherGuessDrawn}
    \cup {Pending("prepare_tv_operations", [file |-> f, info |-> g]) :
            f \in SeriesFileNames, g \in TvGuessDrawn}
    \cup {Pending("normalize_episode_range", e) : e \in EpisodesDrawn}

InitFn == Idle /\ fn_call \in FnCalls

NextFn ==
    \/ ApplyGroupFilesByMovie
    \/ ApplySplitFilename
    \/ ApplyHandleDuplicateFiles
    \/ ApplyPrepareFileOperations
    \/ ApplyNormalizeEpisodeRange
    \/ ApplySeriesPlan
    \/ ApplyExtraType
    \/ ApplyDetectContentType

SpecFn == InitFn /\ [][NextFn]_vars

(***************************************************************************)
(* Properties.                                                             *)
(***************************************************************************)
\* The path of a scanned file.
ScannedPath(f) == PathJoin(f.root, f.file)

\* The organizer that is meant to handle a scanned file of the given type.
OrgOfType(type) == IF type \in {"movie", "movies"} THEN "movies" ELSE "tv"

\* The entries of a history (plans, ops) about one source path.
About(history, path) == {i \in DOMAIN history : history[i].path = path}

\* Whether path p lies under directory d.
IsUnder(p, d) == Len(p) > Len(d) /\ SubSeq(p, 1, Len(d) + 1) = d \o "/"

\* The step is task i handling the end of its tool.
Handles(i, exit) == task[i] = exit /\ i \in DOMAIN task' /\ task'[i] # exit

\* C1: within one run of the movie planner or of the series planner, no two
\* planned entries (main or extra) have the same target path.
C1_DistinctTargets ==
    \A i, j \in DOMAIN plans :
        (i # j /\ plans[i].org = plans[j].org) => plans[i].target # plans[j].target

\* C2: when a run ends, every scanned video file was planned exactly once and
\* copied or moved exactly once, and in auto mode only by the organizer of
\* its detected type.
C2_PlannedOnce ==
    pc = "done" =>
        \A k \in DOMAIN all_files :
            /\ Cardinality(About(plans, ScannedPath(all_files[k]))) = 1
            /\ Cardinality(About(ops, ScannedPath(all_files[k]))) = 1
            /\ \A i \in About(ops, ScannedPath(all_files[k])) :
                  ops[i].org = OrgOfType(all_files[k].type)

\* C3: every source file classified as a movie still exists at its source
\* path, at every moment of the run and after it.
C3_MoviesKept ==
    \A k \in DOMAIN all_files :
        OrgOfType(all_files[k].type) = "movies"
            => ScannedPath(all_files[k]) \in DOMAIN fs

\* C4: at every moment at most 2 invocations of the tool are in flight and
\* at most 2 tasks hold a slot of the semaphore, in every mode.
C4_AtMostTwoInFlight ==
    /\ Cardinality(InFlight) <= 2
    /\ Cardinality({i \in DOMAIN task :
                       task[i] \in {"running", "exit_ok", "exit_error"}}) <= 2

\* C4 witness: in auto mode two invocations run and a third task waits.
C4_Witness ==
    /\ content_type = "auto"
    /\ Cardinality(InFlight) = 2
    /\ \E i \in DOMAIN task : task[i] = "waiting"

\* The content the copy stage left at a target: that of the last source
\* copied or moved there.
CopiedTo(target) ==
    ContentOf(ops[SetMax({i \in DOMAIN ops : ops[i].target = target})].path)

\* C5: once the tool has exited nonzero for a task and the task is past its
\* result, the task's target holds the content the copy stage left there
\* and the task's temp file does not exist.
C5_FailureLeavesTarget ==
    \A i \in DOMAIN task :
        (returncode[i] = 1 /\ task[i] # "exit_error") =>
            /\ ffmpeg_tasks[i].temp_path \notin DOMAIN fs
            /\ ffmpeg_tasks[i].original_path \in DOMAIN fs
            /\ fs[ffmpeg_tasks[i].original_path] = CopiedTo(ffmpeg_tasks[i].original_path)

\* C6: once a task has failed with a nonzero exit, the stage is not ended by
\* an exception and no other task is cancelled or left unhandled.
C6_FailureDoesNotBlock ==
    (\E i \in DOMAIN task : task[i] = "cleaned") =>
        /\ pc # "failed"
        /\ \A j \in DOMAIN task : task[j] \notin {"raised", "cancelled", "orphan"}

\* C7: the step in which a task handles a zero exit renames its temp file
\* onto its target: the target then holds what the temp path held, the temp
\* path is gone and no other path changes.
C7_SuccessReplaces ==
    [][\A i \in DOMAIN task :
          Handles(i, "exit_ok") =>
              /\ task'[i] = "replaced"
              /\ ffmpeg_tasks[i].temp_path \in DOMAIN fs
              /\ ffmpeg_tasks[i].temp_path \notin DOMAIN fs'
              /\ fs'[ffmpeg_tasks[i].original_path] = fs[ffmpeg_tasks[i].temp_path]]_vars

\* The targets of the entries planned as extras.
ExtraTargets == {plans[i].target : i \in {k \in DOMAIN plans : plans[k].extra}}

\* C8: without downmix there is no transcode task and nothing is handed to
\* the tool; with downmix the tasks of an organizer are exactly its planned
\* main targets, in order; no extra's target is ever handed to the tool.
C8_TasksAreMainTargets ==
    /\ ~downmix_audio => ffmpeg_tasks = << >> /\ invoked = {}
    /\ pc \in {"ffmpeg", "failed"} =>
          [i \in DOMAIN ffmpeg_tasks |-> ffmpeg_tasks[i].original_path]
              = [i \in DOMAIN all_main_files |-> all_main_files[i].target]
    /\ invoked \cap ExtraTargets = {}
    /\ \A i \in DOMAIN ffmpeg_tasks :
          ffmpeg_tasks[i].original_path \notin ExtraTargets

\* C8 witness: with downmix, an organizer that planned an extra has handed
\* all its main targets to the tool.
C8_Witness ==
    /\ downmix_audio /\ pc = "ffmpeg"
    /\ all_extra_files # << >>
    /\ Len(all_main_files) > 1
    /\ invoked = {all_main_files[i].target : i \in DOMAIN all_main_files}

C10_SourceKeepsFiles ==
    (pc = "done" /\ content_type = "tv" /\ ~downmix_audio /\ all_files # << >>) =>
        /\ \E p \in DOMAIN fs : IsUnder(p, SourceDir)
        /\ \E d \in dirs : IsUnder(d, TargetDir) /\ Contains(d, "Season")

\* C11: collision resolution returns the computed path when it is free and
\* otherwise base_k + ext for the least k >= 1 that is free; the path it
\* returns does not exist on the destination.
C11_LeastFreeSuffix ==
    (fn_call.fn = "handle_duplicate_files" /\ fn_call.done) =>
        /\ fn_call.out \notin fn_call.arg.exists
        /\ fn_call.arg.target_path \notin fn_call.arg.exists
              => fn_call.out = fn_call.arg.target_path
        /\ fn_call.arg.target_path \in fn_call.arg.exists
              => \E k \in 1..(MaxSuffix + 1) :
                    /\ fn_call.out = Suffixed(fn_call.arg.target_path, k)
                    /\ \A d \in 1..(k - 1) :
                          Suffixed(fn_call.arg.target_path, d) \in fn_call.arg.exists

\* C11 witness: the path and its first two suffixed names exist and the
\* third is returned.
C11_Witness ==
    /\ fn_call.fn = "handle_duplicate_files" /\ fn_call.done
    /\ fn_call.arg.target_path \in fn_call.arg.exists
    /\ fn_call.out = Suffixed(fn_call.arg.target_path, 3)

\* The main entries of a plan history.
MainEntries(history) == {i \in DOMAIN history : ~history[i].extra}

C13_VersionSuffix ==
    (fn_call.fn = "prepare_file_operations" /\ fn_call.done) =>
        LET mains == SelectSeq(fn_call.arg.movie_groups[1].files,
                               LAMBDA f : f.extra_type = NoneStr)
            k(i) == Cardinality({j \in 1..i :
                        /\ mains[j].resolution = mains[i].resolution
                        /\ mains[j].part = mains[i].part})
            name(i) == "Avatar (2009)"
                       \o (IF mains[i].resolution = NoneStr THEN ""
                           ELSE " - " \o mains[i].resolution)
                       \o (IF mains[i].part = NoneInt THEN ""
                           ELSE " - part" \o ToString(mains[i].part))
                       \o (IF k(i) >= 2 THEN " - version" \o ToString(k(i)) ELSE "")
                       \o SplitExtExt(mains[i].file)
        IN /\ Len(fn_call.out.main) = Len(mains)
           /\ \A i \in DOMAIN mains :
                 /\ fn_call.out.main[i].info = mains[i]
                 /\ fn_call.out.main[i].target = "T/Avatar (2009)/" \o name(i)

\* C13 witness: three main files at 1080p without part; the third is
\* planned as version3, after a first without suffix.
C13_Witness ==
    /\ fn_call.fn = "prepare_file_operations" /\ fn_call.done
    /\ Len(fn_call.out.main) = 3
    /\ fn_call.out.main[1].target = "T/Avatar (2009)/Avatar (2009) - 1080p.mkv"
    /\ fn_call.out.main[2].target = "T/Avatar (2009)/Avatar (2009) - 1080p - version2.mp4"
    /\ fn_call.out.main[3].target = "T/Avatar (2009)/Avatar (2009) - 1080p - version3.mkv"

\* C15: normalize_episode_range returns None for an absent episode, n for
\* an integer n (0 included) and for the list [n], and "aa-Ebb" from the
\* first and the last element of a longer list.
C15_NormalizeEpisodes ==
    (fn_call.fn = "normalize_episode_range" /\ fn_call.done) =>
        LET e == fn_call.arg
            first == e.list[1]
            last == e.list[Len(e.list)]
        IN fn_call.out =
             IF e.isList
             THEN IF Len(e.list) = 1 THEN EpInt(first)
                  ELSE EpStr(Pad2(first) \o "-E" \o Pad2(last))
             ELSE IF e.int = NoneInt THEN EpNone
             ELSE EpInt(e.int)

\* The one entry of a plan of one file, main or extra.
OneEntry(plan) == IF plan.main # << >> THEN plan.main[1] ELSE plan.extra[1]

\* C14: a series main file is planned as
\* {Series} S{season:02d}E{d}[ Part {N}][ - {resolution}]{ext} in
\* {Series}[ ({year})]/Season {season:02d}/, where d is the extracted
\* episode designator and 01 when none was extracted.
C14_EpisodeFilename ==
    (/\ fn_call.fn = "prepare_tv_operations" /\ fn_call.done
     /\ "other" \notin DOMAIN fn_call.arg.info) =>
        LET g == fn_call.arg.info
            f == fn_call.arg.file
            series == IF "title" \in DOMAIN g THEN g.title
                      ELSE SubSeq(f, 1, LastIndex(f, ".") - 1)
            key == IF "year" \in DOMAIN g
                   THEN series \o " (" \o ToString(g.year) \o ")" ELSE series
            season == IF "season" \in DOMAIN g THEN g.season ELSE 1
            d == IF "episode" \notin DOMAIN g THEN "01"
                 ELSE IF ~g.episode.isList THEN Pad2(g.episode.int)
                 ELSE IF Len(g.episode.list) = 1 THEN Pad2(g.episode.list[1])
                 ELSE Pad2(g.episode.list[1]) \o "-E"
                      \o Pad2(g.episode.list[Len(g.episode.list)])
            part == IF "part" \in DOMAIN g THEN " Part " \o ToString(g.part)
                    ELSE IF f = "Pilot.Pt.2.avi" THEN " Part 2" ELSE ""
            res == IF "screen_size" \in DOMAIN g THEN " - " \o g.screen_size ELSE ""
            ext == SubSeq(f, LastIndex(f, "."), Len(f))
        IN /\ Len(fn_call.out.main) = 1 /\ fn_call.out.extra = << >>
           /\ fn_call.out.main[1].target =
                 "T/" \o key \o "/Season " \o Pad2(season) \o "/" \o series
                 \o " S" \o Pad2(season) \o "E" \o d \o part \o res \o ext

\* C18: a series file without an extracted season is grouped and planned
\* under season 1 (Season 01, S01); an extracted season n, 0 included, is
\* kept.
C18_SeasonDefault ==
    (fn_call.fn = "prepare_tv_operations" /\ fn_call.done) =>
        LET g == fn_call.arg.info
            season == IF "season" \in DOMAIN g THEN g.season ELSE 1
            e == OneEntry(fn_call.out)
        IN /\ e.info.season = season
           /\ Contains(e.target, "/Season " \o Pad2(season) \o "/")
           /\ \A n \in 0..3 : n # season =>
                 ~Contains(e.target, "/Season " \o Pad2(n) \o "/")
           /\ fn_call.out.main # << >> =>
                 Contains(e.target, " S" \o Pad2(season) \o "E")

\* C18 witness: a main file with season 0 and one without a season were
\* planned.
C18_Witness ==
    /\ fn_call.fn = "prepare_tv_operations" /\ fn_call.done
    /\ "season" \in DOMAIN fn_call.arg.info
    /\ fn_call.arg.info.season = 0
    /\ fn_call.out.main # << >>
    /\ Contains(fn_call.out.main[1].target, "/Season 00/Breaking Bad S00E12")

\* The known tokens and their categories.
KnownTokens ==
    {<<"Trailer", "trailers">>, <<"BehindTheScenes", "behind the scenes">>,
     <<"Featurette", "behind the scenes">>, <<"Interview", "interviews">>,
     <<"Deleted", "deleted scenes">>}

\* The categories of the tokens a tag contains.
CategoriesOf(tag) == {k[2] : k \in {t \in KnownTokens : Contains(tag, t[1])}}

\* The category of the first tag that contains a known token, None when
\* there is none.
FirstCategory(g) ==
    IF "other" \notin DOMAIN g THEN {NoneStr}
    ELSE LET others == IF g.other.isList THEN g.other.list ELSE << g.other.str >>
             hits == {i \in DOMAIN others : CategoriesOf(others[i]) # {}}
         IN IF hits = {} THEN {NoneStr}
            ELSE CategoriesOf(others[CHOOSE i \in hits : \A j \in hits : i <= j])

\* C16: the extra category is that of the first tag containing a known
\* token, None without a match, and the movie parser and the series parser
\* give the same category for the same tags.
C16_ExtraCategory ==
    (fn_call.fn = "extra_type" /\ fn_call.done) =>
        /\ fn_call.out.tv \in FirstCategory(fn_call.arg)
        /\ fn_call.out.movie = fn_call.out.tv

\* The fallback patterns S<1-2 digits>E<1-2 digits>, Season<spaces><digits>
\* and Episode<spaces><digits>, in any letter case.
MatchesAnyCase(f) ==
    \/ MatchSxxEyy(Lower(f))
    \/ MatchWordNumber(Lower(f), {"s"}, "eason")
    \/ MatchWordNumber(Lower(f), {"e"}, "pisode")

\* C17: detect_content_type returns tv when the guess reports a season or
\* an episode, else tv when the file name matches a fallback pattern in any
\* letter case, else movie; it always returns one of the two.
C17_ContentType ==
    (fn_call.fn = "detect_content_type" /\ fn_call.done) =>
        /\ fn_call.out \in {"tv", "movie"}
        /\ fn_call.out = "tv" <=>
              \/ "season" \in DOMAIN fn_call.arg.info
              \/ "episode" \in DOMAIN fn_call.arg.info
              \/ MatchesAnyCase(fn_call.arg.file)

\* The scanned files that have an entry in the plan of the organizer org.
PlannedBy(org) == {plans[i].path : i \in {k \in DOMAIN plans : plans[k].org = org}}

\* C19: when guessit raises for a file the run does not abort, and the
\* other scanned files are still grouped and planned by the organizer.
C19_GuessitFailureRecovered ==
    error.type = "GuessitException" =>
        /\ pc # "failed"
        /\ pc = "done" =>
              \A k \in DOMAIN all_files :
                  ScannedPath(all_files[k]) # error.at =>
                      \E i \in DOMAIN plans :
                          plans[i].path = ScannedPath(all_files[k])

\* C20: when the folder of one group cannot be created, the run goes on
\* and the files of every other group of that organizer are planned.
C20_FolderFailureSkipsGroup ==
    error.type = "OSError" =>
        LET call == Head(todo)
            groups == GroupsOf(call, scan_source_directory(DOMAIN fs))
        IN \A k \in DOMAIN groups :
              GroupFolder(call, groups[k]) # error.at =>
                  \A i \in DOMAIN groups[k].files :
                      groups[k].files[i].path \in PlannedBy(call.org)

\* C23: the base followed by the real extension is the file name again,
\* and the extension is the last dot-segment only: the base keeps every
\* other dot.
C23_BaseAndExtension ==
    (fn_call.fn = "split_filename" /\ fn_call.done) =>
        /\ fn_call.out.base \o fn_call.out.ext = fn_call.arg
        /\ IF Positions(fn_call.arg, ".") = {} THEN fn_call.out.ext = ""
           ELSE /\ CharAt(fn_call.out.ext, 1) = "."
                /\ Positions(fn_call.out.ext, ".") = {1}

\* C23 witness: the name of the test was split after its last dot.
C23_Witness ==
    /\ fn_call.fn = "split_filename" /\ fn_call.done
    /\ fn_call.arg = "Show.S01E01.episode.name.with.dots.mov.mkv"
    /\ fn_call.out.base = "Show.S01E01.episode.name.with.dots.mov"
    /\ fn_call.out.ext = ".mkv"

\* C21: a run started from the screen copies, moves and transcodes only
\* the selected files; a video file that was not selected is left alone.
C21_OnlySelectedProcessed ==
    tui =>
        /\ \A i \in DOMAIN ops : ops[i].path \in selected_files
        /\ \A t \in invoked :
              \E i \in DOMAIN ops :
                  ops[i].target = t /\ ops[i].path \in selected_files
        /\ \A k \in DOMAIN all_files :
              ScannedPath(all_files[k]) \notin selected_files =>
                  ScannedPath(all_files[k]) \in DOMAIN fs

\* C22: every movie target lies under <target>/Movies/ and every series
\* target under <target>/Shows/.
C22_TargetsUnderMoviesOrShows ==
    \A i \in DOMAIN plans :
        IsUnder(plans[i].target,
                PathJoin(TargetDir, IF plans[i].org = "movies" THEN "Movies"
                                    ELSE "Shows"))

\* The folder name of a movie with title t and year y.
TitleAndYear(m) ==
    IF m.year # NoneInt THEN m.title \o " (" \o ToString(m.year) \o ")" ELSE m.title

\* C26: the folder of a movie, and the base of its main file names, is
\* "T (Y)" when a year was extracted and "T" when none was, also when T ends
\* in four digits.
C26_FolderIsTitleAndYear ==
    (fn_call.fn = "group_files_by_movie" /\ fn_call.done) =>
        \A j \in DOMAIN fn_call.out.plan.main :
            \A i \in DOMAIN fn_call.arg :
                fn_call.out.plan.main[j].info.path
                    = ScannedPath(ScannedMovie(i)) =>
                    LET name == TitleAndYear(fn_call.arg[i])
                        target == fn_call.out.plan.main[j].target
                        prefix == PathJoin(PathJoin(TargetDir, name), name)
                    IN /\ Len(target) >= Len(prefix)
                       /\ SubSeq(target, 1, Len(prefix)) = prefix
                       /\ SubSeq(target, Len(prefix) + 1, Len(prefix) + 1)
                            \in {".", " "}

\* C27: two movie files are in the same group exactly when they have the
\* same title and the same year, or the same title and no year.
C27_SameGroupIffSameTitleAndYear ==
    (fn_call.fn = "group_files_by_movie" /\ fn_call.done) =>
        \A i, j \in DOMAIN fn_call.arg :
            (\E k \in DOMAIN fn_call.out.movie_groups :
                {ScannedPath(ScannedMovie(i)), ScannedPath(ScannedMovie(j))}
                    \subseteq {f.path : f \in SeqToSet(fn_call.out.movie_groups[k].files)})
            <=> (/\ fn_call.arg[i].title = fn_call.arg[j].title
                 /\ fn_call.arg[i].year = fn_call.arg[j].year)

\* The copy loops of the current organizer are over.
CopiesDone == idx > Len(all_main_files) + Len(all_extra_files)

\* A task whose tool may still be started or handled by its task.
Unfinished == {i \in DOMAIN task :
                  task[i] \in {"waiting", "running", "exit_ok", "exit_error"}}

\* C24: no tool invocation starts before every copy or move of the whole
\* working set is done, no copy or move starts before the whole working set
\* is planned, and the run returns only after every task has finished.
C24_StagesOverWholeWorkingSet ==
    /\ invoked # {} => pc \notin {"main", "plan"} /\ (pc = "copy" => CopiesDone)
    /\ ops # << >> => pc \notin {"main", "plan"}
    /\ pc = "done" => Unfinished = {}

\* C24 as the code has it: the stages are ordered within each organizer
\* call.  While an organizer plans, it has copied or moved nothing; while it
\* copies, none of its targets has been handed to the tool and it has no
\* task; it returns, and the run with it, only after every one of its tasks
\* has finished.  In auto mode the series organizer plans and copies after
\* the movie organizer's transcodes.
C24_StagesWithinOrganizer ==
    /\ pc = "plan" => \A i \in DOMAIN ops : ops[i].org # Head(todo).org
    /\ pc = "copy" =>
          /\ task = << >>
          /\ \A i \in DOMAIN all_main_files : all_main_files[i].target \notin invoked
          /\ \A i \in DOMAIN ops :
                ops[i].org = Head(todo).org =>
                    \E j \in DOMAIN plans :
                        plans[j].org = ops[i].org /\ plans[j].target = ops[i].target
    /\ pc = "ffmpeg" => CopiesDone
    /\ pc \in {"plan", "done"} => Unfinished = {}

\* C24 witness: in auto mode the series organizer copies after a movie was
\* handed to the tool.
C24_Witness ==
    /\ content_type = "auto" /\ pc = "copy" /\ ~CopiesDone
    /\ Head(todo).org = "tv"
    /\ invoked # {}
    /\ \E i \in DOMAIN ops : ops[i].org = "tv"

\* C25: the temp paths of the tasks are pairwise distinct and no task's temp
\* path is another task's target, so two tools in flight never write the
\* same file.
C25_TasksWriteOwnFiles ==
    \A i, j \in DOMAIN ffmpeg_tasks :
        i # j =>
            /\ ffmpeg_tasks[i].temp_path # ffmpeg_tasks[j].temp_path
            /\ ffmpeg_tasks[i].temp_path # ffmpeg_tasks[j].original_path
            /\ ffmpeg_tasks[i].original_path # ffmpeg_tasks[j].original_path

\* C29: when the copy loops of an organizer are over, the content of every
\* file it planned is at the file's planned target.
C29_NoContentLost ==
    (pc = "copy" /\ CopiesDone) =>
        /\ \A i \in DOMAIN all_main_files :
              /\ all_main_files[i].target \in DOMAIN fs
              /\ fs[all_main_files[i].target] = ContentOf(all_main_files[i].info.path)
        /\ \A i \in DOMAIN all_extra_files :
              /\ all_extra_files[i].target \in DOMAIN fs
              /\ fs[all_extra_files[i].target] = ContentOf(all_extra_files[i].info.path)

\* C28: from the cancel request on, no task that had not started is handed
\* to the tool, a tool that was running is not stopped (its task waits for
\* its exit), and the screen is never marked completed.
C28_CancelStopsScheduling ==
    [][/\ is_cancelled => invoked' = invoked
       /\ (~is_cancelled /\ is_cancelled') =>
             \A i \in DOMAIN task : task[i] = "running" => task'[i] = "orphan"
       /\ is_cancelled =>
             \A i \in DOMAIN task :
                 (task[i] = "orphan" /\ task'[i] # "orphan") => returncode'[i] \in {0, 1}
       /\ is_cancelled' => ~is_completed']_vars

\* C28 witness: after a cancel request one tool is still running and a task
\* that had not started has ended without being handed to the tool.
C28_Witness ==
    /\ is_cancelled /\ ~is_completed
    /\ \E i \in DOMAIN task : task[i] = "orphan"
    /\ \E j \in DOMAIN task :
          task[j] = "cancelled" /\ ffmpeg_tasks[j].original_path \notin invoked

\* The transcode stage of the current organizer has ended: by the return of
\* asyncio.gather, by an exception or by cancellation, and no tool runs.
StageEnded ==
    /\ task # << >>
    /\ pc \in {"plan", "done", "failed", "cancelled"}
    /\ \A i \in DOMAIN task : task[i] # "orphan"

\* C30: when the transcode stage has ended, however it ended, no task's temp
\* file is left on the destination.
C30_NoTempFileLeft ==
    StageEnded =>
        \A i \in DOMAIN ffmpeg_tasks : ffmpeg_tasks[i].temp_path \notin DOMAIN fs

====
